---- MODULE Spec2Model ----
(***************************************************************************)
(* Backtester (src/backtester.py): the day loop of Backtester.run and the  *)
(* procedures it calls (_sell, _buy, _calculate_account_value,             *)
(* _summarize_day, _reset_backtest_state), one action per step of the loop.*)
(*                                                                         *)
(* Money is counted in thousandths of the currency unit, so round(x, 2) is *)
(* a rounding to the nearest multiple of 10.  An index key (ds) is a pair  *)
(* <<calendar date, time of day>>; str(ds)[:10] keeps the calendar date.   *)
(* The signal panel is an input fixed at construction.  The index of every *)
(* symbol is drawn in Init; a cell of the panel is drawn where the loop    *)
(* reads it: a run reads each signal cell at most once and each price only *)
(* on its own day, so this yields the same runs as a panel drawn in Init.  *)
(* When the caller calls run() more than once, the cells read and the      *)
(* answers of the position sizer are recorded, and a later call reads the  *)
(* same panel and asks the same deterministic sizer.                       *)
(***************************************************************************)
EXTENDS Integers, Sequences, FiniteSets, TLC

\* ---------------------------------------------------------------- bounds
MaxDays == 3            \* calendar dates of the panel: 1..MaxDays
MaxCells == 3           \* rows of the panel, over all symbols
MaxDecisions == 2       \* longest list decide_what_to_buy returns
MaxRuns == 2            \* calls of run() on one Backtester
RerunCells == 2         \* rows of the panel when run() is called again

SymbolOrder == <<"A", "B">>     \* self.signals, in insertion order
Symbols == {SymbolOrder[i] : i \in 1..Len(SymbolOrder)}
Stamps == {<<d, 0>> : d \in 1..MaxDays}
Prices == {100, 200}
StopPrices == {100, 200}
ShareCounts == {1}
InitCapitals == {100}

NoLimit == 0 - 1        \* test_days=None
DayLimits == {NoLimit} \cup (0..(MaxDays + 1))
RerunLimits == {NoLimit, 1}     \* day limits of a later call of run()

VARIABLES
    \* configuration, set by __init__
    dates,                  \* dates[s]: keys of self.signals[s][price_label]
    init_capital,
    stop_loss,
    calls,                  \* how many times the caller calls run()
    \* the panel cells read so far and the sizer's answers so far
    panel, sized,
    \* the call of run()
    pc, outcome, runs, test_days, days, idx,
    previous,               \* what the call before this one returned or raised
    \* locals of one pass of the day loop
    price,                  \* self.signals[s][price_label][ds] of the symbols in today's session
    owned_todo,             \* rest of the list owned_shares being iterated (line 59)
    row,                    \* exit cells of the panel read by the last exit check
    entries,                \* entry cells of the panel read by the candidate phase
    purchease_candidates,
    capital_at_time,
    symbols_to_buy,
    \* attributes reset by _reset_backtest_state
    owned_shares, available_money, money_from_short, trades,
    account_value, net_account_value, rate_of_return, backup_close_prices

config == <<dates, init_capital, stop_loss, calls>>
memo == <<panel, sized>>
call == <<pc, outcome, runs, previous, test_days, days, idx>>
locals == <<price, owned_todo, row, entries, purchease_candidates, capital_at_time, symbols_to_buy>>
book == <<owned_shares, available_money, money_from_short, trades>>
snapshots == <<account_value, net_account_value, rate_of_return>>
engine == <<book, snapshots, backup_close_prices>>
vars == <<config, memo, call, locals, engine>>

\* ------------------------------------------------------------ pure helpers
EmptyDict == <<>>

Abs(x) == IF x < 0 THEN 0 - x ELSE x

\* round(x, 2) on thousandths: nearest multiple of 10, a tie to the even one
Round2(x) ==
    LET r == x % 10
        lo == x - r
    IN  IF r < 5 THEN lo
        ELSE IF r > 5 THEN lo + 10
        ELSE IF (lo \div 10) % 2 = 0 THEN lo ELSE lo + 10

\* str(ds)[:10]
DateStr(ds) == ds[1]

\* order of index keys
Before(a, b) == a[1] < b[1] \/ (a[1] = b[1] /\ a[2] < b[2])

RECURSIVE Sorted(_)
Sorted(S) ==
    IF S = {} THEN <<>>
    ELSE LET m == CHOOSE x \in S : \A y \in S : ~Before(y, x)
         IN  <<m>> \o Sorted(S \ {m})

Min(a, b) == IF a < b THEN a ELSE b

\* days[:n] for n >= 0
Truncate(s, n) == SubSeq(s, 1, Min(n, Len(s)))

\* lines 34-44: sorted union of the symbols' index keys, cut by a truthy test_days
Days(limit) ==
    LET all == Sorted(UNION {dates[s] : s \in Symbols})
    IN  IF limit # NoLimit /\ limit # 0 THEN Truncate(all, limit) ELSE all

\* symbols_in_day[ds], in the order of self.signals
SymbolsInDay(ds) == SelectSeq(SymbolOrder, LAMBDA s : ds \in dates[s])

Range(s) == {s[i] : i \in 1..Len(s)}

\* self._owned_shares is a dict keyed by symbol; a sequence keeps its insertion order
\* self._owned_shares.pop(symbol) that removes nothing
DictPopKept(owned, symbol) == owned

Keys(owned) == [i \in 1..Len(owned) |-> owned[i].symbol]
Position(owned, symbol) == owned[CHOOSE i \in 1..Len(owned) : owned[i].symbol = symbol]
DictPop(owned, symbol) == SelectSeq(owned, LAMBDA p : p.symbol # symbol)
DictSet(owned, p) ==
    IF \E i \in 1..Len(owned) : owned[i].symbol = p.symbol
    THEN [i \in 1..Len(owned) |-> IF owned[i].symbol = p.symbol THEN p ELSE owned[i]]
    ELSE Append(owned, p)

\* dict.pop(key) and dict[key] = value on a dict modelled as a function
Without(d, k) == [x \in DOMAIN d \ {k} |-> d[x]]
With(d, k, v) == (k :> v) @@ d

RECURSIVE SumValues(_)
SumValues(d) ==
    IF DOMAIN d = {} THEN 0
    ELSE LET k == CHOOSE x \in DOMAIN d : TRUE
         IN  d[k] + SumValues(Without(d, k))

\* _get_money_from_short
GetMoneyFromShort(mfs) == SumValues(mfs)

\* position_sizer.calculate_fee: a 4% commission
CalculateFee(trx_value) == (trx_value * 4) \div 100

\* line 184 without the date
TrxIdNoDate(ds, symbol, entry_type) == <<0, symbol, entry_type>>

\* line 184
TrxId(ds, symbol, entry_type) == <<DateStr(ds), symbol, entry_type>>

IsOpen(t) == "sell_ds" \notin DOMAIN t

\* line 176 with the symbol looked up in the ledger, whose keys are trade ids
AlreadyOwnedInLedger(owned, symbol) == FALSE

\* line 176
AlreadyOwned(owned, symbol) == \E i \in 1..Len(owned) : owned[i].symbol = symbol

\* line 83 with the comparison reversed
BankruptedPositive(money) == money > 0

\* line 83
Bankrupted(money) == money < 0

\* line 248 without the cash
NavNoCash(av, money, short) == av + short

\* line 248 without the borrowed money
NavNoShort(av, money, short) == av + money

\* line 248
Nav(av, money, short) == av + money + short

\* line 251, as the fraction <<numerator, denominator>> of the percentage
RateOfReturn(nav, capital) == <<(nav - capital) * 100, capital>>

\* _calculate_account_value: price of a held symbol, today's or the backup
HasPrice(symbol, backup) == symbol \in DOMAIN price \/ symbol \in DOMAIN backup
PriceOf(symbol, backup) == IF symbol \in DOMAIN price THEN price[symbol] ELSE backup[symbol][1]

\* line 236 with the share count taken without its sign
RECURSIVE SumPositionsUnsigned(_, _)
SumPositionsUnsigned(owned, backup) ==
    IF owned = <<>> THEN 0
    ELSE Abs(Head(owned).cnt) * PriceOf(Head(owned).symbol, backup)
            + SumPositionsUnsigned(Tail(owned), backup)

RECURSIVE SumPositions(_, _)
SumPositions(owned, backup) ==
    IF owned = <<>> THEN 0
    ELSE Head(owned).cnt * PriceOf(Head(owned).symbol, backup) + SumPositions(Tail(owned), backup)

CalculateAccountValue(owned, backup) == SumPositions(owned, backup)

\* line 237 left out
BackupAfterKept(owned, backup, ds) == backup

\* line 237
BackupAfter(owned, backup, ds) ==
    [s \in DOMAIN backup \cup Range(Keys(owned)) |->
        IF s \in Range(Keys(owned)) THEN <<PriceOf(s, backup), ds>> ELSE backup[s]]

AccountValueFails(owned, backup) == \E s \in Range(Keys(owned)) : ~HasPrice(s, backup)

Today == days[idx]

\* a cell of the panel: the value already read, or any value of its column
Cell(column, symbol, ds, values) ==
    IF <<column, symbol, ds>> \in DOMAIN panel THEN {panel[<<column, symbol, ds>>]} ELSE values

\* cells are kept for the calls of run() still to come
Read(cells) == IF runs < calls THEN cells @@ panel ELSE panel

\* the call before the first one
NoCall == [outcome |-> "none"]

\* ------------------------------------------------------------------ Init
RECURSIVE CellsOf(_, _)
CellsOf(f, syms) ==
    IF syms = <<>> THEN 0 ELSE Cardinality(f[Head(syms)]) + CellsOf(f, Tail(syms))

\* rows of a panel with the index f
Cells(f) == CellsOf(f, SymbolOrder)

ClearLocals ==
    /\ price' = EmptyDict
    /\ owned_todo' = <<>>
    /\ row' = <<>>
    /\ entries' = EmptyDict
    /\ purchease_candidates' = <<>>
    /\ capital_at_time' = 0
    /\ symbols_to_buy' = <<>>

\* state after Backtester(signals, init_capital=..., stop_loss=...)
Constructed(cells, n) ==
    /\ dates \in {f \in [Symbols -> SUBSET Stamps] : Cells(f) <= cells}
    /\ init_capital \in InitCapitals
    /\ stop_loss \in BOOLEAN
    /\ calls = n
    /\ panel = EmptyDict /\ sized = EmptyDict
    /\ pc = "idle" /\ outcome = "none" /\ runs = 0 /\ previous = NoCall
    /\ test_days = NoLimit /\ days = <<>> /\ idx = 0
    /\ price = EmptyDict /\ owned_todo = <<>> /\ row = <<>> /\ entries = EmptyDict
    /\ purchease_candidates = <<>> /\ capital_at_time = 0 /\ symbols_to_buy = <<>>
    /\ owned_shares = <<>>
    /\ available_money = init_capital
    /\ money_from_short = EmptyDict
    /\ trades = EmptyDict
    /\ account_value = EmptyDict
    /\ net_account_value = EmptyDict
    /\ rate_of_return = EmptyDict
    /\ backup_close_prices = EmptyDict

\* the caller calls run() once
Init == Constructed(MaxCells, 1)

\* the caller calls run() again and again on the same Backtester
RerunInit == Constructed(RerunCells, MaxRuns)

\* --------------------------------------------------------------- run()
\* _reset_backtest_state without lines 129 and 133
ResetBacktestStateKeepsLedger ==
    /\ owned_shares' = <<>>
    /\ available_money' = init_capital
    /\ money_from_short' = EmptyDict
    /\ account_value' = EmptyDict
    /\ net_account_value' = EmptyDict
    /\ rate_of_return' = EmptyDict
    /\ UNCHANGED <<trades, backup_close_prices>>

\* _reset_backtest_state, lines 124-133
ResetBacktestState ==
    /\ owned_shares' = <<>>
    /\ available_money' = init_capital
    /\ money_from_short' = EmptyDict
    /\ trades' = EmptyDict
    /\ account_value' = EmptyDict
    /\ net_account_value' = EmptyDict
    /\ rate_of_return' = EmptyDict
    /\ backup_close_prices' = EmptyDict

\* what run() hands to its caller: the outcome, the time series and the ledger
Output ==
    [outcome |-> outcome, days |-> days, trades |-> trades,
     account_value |-> account_value, net_account_value |-> net_account_value,
     rate_of_return |-> rate_of_return]

\* run(test_days), lines 27-44: reset, then the list of days
CallRun ==
    /\ pc = "idle"
    /\ runs < calls
    /\ \E n \in (IF runs = 0 THEN DayLimits ELSE RerunLimits) :
        /\ test_days' = n
        /\ days' = Days(n)
    /\ ResetBacktestState
    /\ runs' = runs + 1
    /\ previous' = IF runs = 0 THEN NoCall ELSE Output
    /\ outcome' = "running"
    /\ pc' = "loop"
    /\ idx' = 0
    /\ ClearLocals
    /\ UNCHANGED <<config, memo>>

\* an exception leaves run(): the locals are gone, the attributes stay
Raise(kind) ==
    /\ outcome' = kind
    /\ pc' = "idle"
    /\ ClearLocals
    /\ UNCHANGED <<config, memo, runs, previous, test_days, days, idx>>

\* lines 46-50: next day of the loop
BeginDay ==
    /\ pc = "loop"
    /\ idx < Len(days)
    /\ idx' = idx + 1
    /\ price' \in {f \in [Range(SymbolsInDay(days[idx + 1])) -> Prices] :
            \A s \in DOMAIN f : f[s] \in Cell("price", s, days[idx + 1], Prices)}
    /\ panel' = Read([k \in {<<"price", s, days[idx + 1]>> : s \in DOMAIN price'} |->
                        price'[k[2]]])
    /\ owned_todo' = Keys(owned_shares)
    /\ row' = <<>>
    /\ entries' = EmptyDict
    /\ purchease_candidates' = <<>>
    /\ capital_at_time' = 0
    /\ symbols_to_buy' = <<>>
    /\ pc' = "exit"
    /\ UNCHANGED <<config, sized, outcome, runs, previous, test_days, days, engine>>

\* line 115
Return ==
    /\ pc = "loop"
    /\ idx = Len(days)
    /\ outcome' = "returned"
    /\ pc' = "idle"
    /\ ClearLocals
    /\ UNCHANGED <<config, memo, runs, previous, test_days, days, idx, engine>>

\* ---------------------------------------------------------------- _sell
\* lines 166-171
Finalized(t, ds, trx_value, sell_trx_value_with_fee, profit) ==
    [sell_ds |-> ds,
     sell_value_no_fee |-> trx_value,
     sell_value_with_fee |-> sell_trx_value_with_fee,
     profit |-> Round2(profit)] @@ t

\* line 172 left out
SoldSharesKept(owned, symbol) == owned

\* line 172
SoldShares(owned, symbol) == DictPop(owned, symbol)

\* _sell(symbol, prices, ds, exit_type), lines 135-172, inside the exit loop
Sell(symbol, exit_type) ==
    LET p == price[symbol]
        shares_count == Position(owned_shares, symbol).cnt
        trx_value == Abs(shares_count) * p
        fee == CalculateFee(trx_value)
        trx_id == Position(owned_shares, symbol).trx_id
        buy_trx_value_with_fee == trades[trx_id].trx_value_with_fee
    IN  IF exit_type = "long"
        THEN LET sell_trx_value_with_fee == trx_value - fee
                 profit == sell_trx_value_with_fee - buy_trx_value_with_fee
             IN  /\ available_money' = available_money + sell_trx_value_with_fee
                 /\ money_from_short' = money_from_short
                 /\ trades' = [trades EXCEPT ![trx_id] =
                        Finalized(@, Today, trx_value, sell_trx_value_with_fee, profit)]
                 /\ owned_shares' = SoldShares(owned_shares, symbol)
                 /\ owned_todo' = Tail(owned_todo)
                 /\ UNCHANGED <<config, call, price, entries, purchease_candidates,
                                capital_at_time, symbols_to_buy, snapshots, backup_close_prices>>
        ELSE IF trx_id \in DOMAIN money_from_short
        THEN LET sell_trx_value_with_fee == trx_value + fee
                 profit == buy_trx_value_with_fee - sell_trx_value_with_fee
             IN  /\ available_money' =
                        available_money + money_from_short[trx_id] - sell_trx_value_with_fee
                 /\ money_from_short' = Without(money_from_short, trx_id)
                 /\ trades' = [trades EXCEPT ![trx_id] =
                        Finalized(@, Today, trx_value, sell_trx_value_with_fee, profit)]
                 /\ owned_shares' = SoldShares(owned_shares, symbol)
                 /\ owned_todo' = Tail(owned_todo)
                 /\ UNCHANGED <<config, call, price, entries, purchease_candidates,
                                capital_at_time, symbols_to_buy, snapshots, backup_close_prices>>
        \* line 160: self._money_from_short[trx_id] of a trade that has no entry
        ELSE /\ outcome' = "KeyError"
             /\ pc' = "idle"
             /\ price' = EmptyDict /\ owned_todo' = <<>> /\ entries' = EmptyDict
             /\ purchease_candidates' = <<>> /\ capital_at_time' = 0 /\ symbols_to_buy' = <<>>
             /\ UNCHANGED <<config, runs, previous, test_days, days, idx, engine>>

\* ------------------------------------------------------ exit phase, 59-81
\* the cells of today's row of the symbol that the exit check has read
Row1(symbol, xl) == <<[symbol |-> symbol, exit_long |-> xl]>>
Row2(symbol, xl, xs) == <<[symbol |-> symbol, exit_long |-> xl, exit_short |-> xs]>>
Row3(symbol, xl, xs, sl) ==
    <<[symbol |-> symbol, exit_long |-> xl, exit_short |-> xs, stop_loss |-> sl]>>

ExitCells(r) ==
    [k \in {<<c, r.symbol, Today>> : c \in DOMAIN r \ {"symbol"}} |-> r[k[1]]]

\* line 73 with every open trade taken for a long one
TradeTypeLong(symbol) == "long"

\* line 73
TradeType(symbol) == trades[Position(owned_shares, symbol).trx_id].type

\* lines 65 and 68 with exit_short looked at first
ExitBranchShortFirst(xl, xs) ==
    IF xs = 1 THEN "short" ELSE IF xl = 1 THEN "long" ELSE "none"

\* lines 65-71: the branch the exit signals of a row select
ExitBranch(xl, xs) ==
    IF xl = 1 THEN "long" ELSE IF xs = 1 THEN "short" ELSE "none"

Checking(symbol) ==
    /\ pc = "exit"
    /\ owned_todo # <<>>
    /\ symbol = Head(owned_todo)

\* the exit check of a symbol in today's session reads the cells of the row r
Checked(symbol, r) ==
    /\ Checking(symbol)
    /\ symbol \in DOMAIN price
    /\ \A c \in DOMAIN r[1] \ {"symbol"} :
            r[1][c] \in Cell(c, symbol, Today, {r[1][c]})
    /\ row' = r
    /\ panel' = Read(ExitCells(r[1]))
    /\ sized' = sized

\* lines 61-62 left out: the exit_long cell of a missing row is looked up
SkipAbsentRaises ==
    \E symbol \in Symbols :
        /\ Checking(symbol)
        /\ symbol \notin DOMAIN price
        /\ Raise("KeyError")
        /\ UNCHANGED engine

\* lines 61-62
SkipAbsent ==
    \E symbol \in Symbols :
        /\ Checking(symbol)
        /\ symbol \notin DOMAIN price
        /\ owned_todo' = Tail(owned_todo)
        /\ row' = <<>>
        /\ UNCHANGED <<config, memo, call, price, entries, purchease_candidates,
                       capital_at_time, symbols_to_buy, engine>>

\* lines 65-67
ExitLong ==
    \E symbol \in Symbols, xl, xs \in {0, 1} :
        /\ ExitBranch(xl, xs) = "long"
        /\ Checked(symbol, Row1(symbol, xl))
        /\ Sell(symbol, "long")

\* lines 68-70
ExitShort ==
    \E symbol \in Symbols, xl, xs \in {0, 1} :
        /\ ExitBranch(xl, xs) = "short"
        /\ Checked(symbol, Row2(symbol, xl, xs))
        /\ Sell(symbol, "short")

\* lines 71-76
StopLossLong ==
    \E symbol \in Symbols, xl, xs \in {0, 1}, sl \in StopPrices :
        /\ ExitBranch(xl, xs) = "none"
        /\ stop_loss = TRUE
        /\ Checked(symbol, Row3(symbol, xl, xs, sl))
        /\ TradeType(symbol) = "long" /\ price[symbol] <= sl
        /\ Sell(symbol, "long")

\* lines 77-79
StopLossShort ==
    \E symbol \in Symbols, xl, xs \in {0, 1}, sl \in StopPrices :
        /\ ExitBranch(xl, xs) = "none"
        /\ stop_loss = TRUE
        /\ Checked(symbol, Row3(symbol, xl, xs, sl))
        /\ ~(TradeType(symbol) = "long" /\ price[symbol] <= sl)
        /\ TradeType(symbol) = "short" /\ price[symbol] >= sl
        /\ Sell(symbol, "short")

\* lines 71-79, neither comparison holds
StopLossHold ==
    \E symbol \in Symbols, xl, xs \in {0, 1}, sl \in StopPrices :
        /\ ExitBranch(xl, xs) = "none"
        /\ stop_loss = TRUE
        /\ Checked(symbol, Row3(symbol, xl, xs, sl))
        /\ ~(TradeType(symbol) = "long" /\ price[symbol] <= sl)
        /\ ~(TradeType(symbol) = "short" /\ price[symbol] >= sl)
        /\ owned_todo' = Tail(owned_todo)
        /\ UNCHANGED <<config, call, price, entries, purchease_candidates,
                       capital_at_time, symbols_to_buy, engine>>

\* lines 80-81
NotExiting ==
    \E symbol \in Symbols, xl, xs \in {0, 1} :
        /\ ExitBranch(xl, xs) = "none"
        /\ stop_loss # TRUE
        /\ Checked(symbol, Row2(symbol, xl, xs))
        /\ owned_todo' = Tail(owned_todo)
        /\ UNCHANGED <<config, call, price, entries, purchease_candidates,
                       capital_at_time, symbols_to_buy, engine>>

\* lines 83-87
RaiseBankrupt ==
    /\ pc = "exit"
    /\ owned_todo = <<>>
    /\ Bankrupted(available_money)
    /\ Raise("Bankruptcy")
    /\ UNCHANGED engine

\* line 89
SellEnd ==
    /\ pc = "exit"
    /\ owned_todo = <<>>
    /\ ~Bankrupted(available_money)
    /\ row' = <<>>
    /\ pc' = "candidates"
    /\ UNCHANGED <<config, memo, outcome, runs, previous, test_days, days, idx, price,
                   owned_todo, entries, purchease_candidates, capital_at_time,
                   symbols_to_buy, engine>>

\* ------------------------------------------- candidate phase, lines 91-96
\* _define_candidate with every candidate a long one
DefineCandidateLong(symbol, entry_type) ==
    [symbol |-> symbol, entry_type |-> "long", price |-> price[symbol]]

\* _define_candidate, lines 217-223
DefineCandidate(symbol, entry_type) ==
    [symbol |-> symbol, entry_type |-> entry_type, price |-> price[symbol]]

RECURSIVE Candidates(_, _)
Candidates(syms, sig) ==
    IF syms = <<>> THEN <<>>
    ELSE LET sym == Head(syms)
             rest == Candidates(Tail(syms), sig)
         IN  IF sig[sym].entry_long = 1 THEN <<DefineCandidate(sym, "long")>> \o rest
             ELSE IF sig[sym].entry_short = 1 THEN <<DefineCandidate(sym, "short")>> \o rest
             ELSE rest

\* the entry cells of a row that lines 93-95 read: entry_short only after entry_long # 1
EntryCells == [entry_long : {1}] \cup [entry_long : {0}, entry_short : {0, 1}]

EntryCellsRead(sig) ==
    [k \in {<<"entry_long", s, Today>> : s \in DOMAIN sig} |-> sig[k[2]].entry_long]
    @@ [k \in {<<"entry_short", s, Today>> : s \in {x \in DOMAIN sig : sig[x].entry_long # 1}}
            |-> sig[k[2]].entry_short]

CandidatePhase ==
    /\ pc = "candidates"
    /\ \E sig \in [DOMAIN price -> EntryCells] :
        /\ \A s \in DOMAIN sig :
            /\ sig[s].entry_long \in Cell("entry_long", s, Today, {0, 1})
            /\ sig[s].entry_long # 1 =>
                    sig[s].entry_short \in Cell("entry_short", s, Today, {0, 1})
        /\ entries' = sig
        /\ purchease_candidates' = Candidates(SymbolsInDay(Today), sig)
        /\ panel' = Read(EntryCellsRead(sig))
    /\ pc' = "size"
    /\ UNCHANGED <<config, sized, outcome, runs, previous, test_days, days, idx, price,
                   owned_todo, row, capital_at_time, symbols_to_buy, engine>>

\* ------------------------------------------------- sizing, lines 102-107
\* decisions the sizer can return for one candidate
Decisions(c) ==
    {[symbol |-> c.symbol, entry_type |-> c.entry_type, price |-> c.price,
      shares_count |-> n, trx_value |-> n * c.price, fee |-> CalculateFee(n * c.price)] :
        n \in ShareCounts}

\* position_sizer.decide_what_to_buy: any list of decisions on offered candidates,
\* the list given before when the arguments are those of an earlier call
DecideWhatToBuy(money, candidates, capital) ==
    LET choice == UNION {Decisions(candidates[i]) : i \in 1..Len(candidates)}
    IN  IF <<money, candidates, capital>> \in DOMAIN sized
        THEN {sized[<<money, candidates, capital>>]}
        ELSE UNION {[1..k -> choice] : k \in 0..MaxDecisions}

Sizing ==
    /\ pc = "size"
    /\ IF AccountValueFails(owned_shares, backup_close_prices)
       THEN /\ Raise("KeyError")
            /\ UNCHANGED engine
       ELSE LET capital == available_money
                    + CalculateAccountValue(owned_shares, backup_close_prices)
                    + GetMoneyFromShort(money_from_short)
            IN  /\ capital_at_time' = capital
                /\ backup_close_prices' =
                        BackupAfter(owned_shares, backup_close_prices, Today)
                /\ symbols_to_buy' \in
                        DecideWhatToBuy(available_money, purchease_candidates, capital)
                /\ sized' = IF runs < calls
                            THEN With(sized, <<available_money, purchease_candidates, capital>>,
                                      symbols_to_buy')
                            ELSE sized
                /\ pc' = "buy"
                /\ UNCHANGED <<config, panel, outcome, runs, previous, test_days, days, idx,
                               price, owned_todo, row, entries, purchease_candidates, book,
                               snapshots>>

\* ------------------------------------------------------ _buy, lines 174-206
\* lines 176-182 with the decision skipped instead of raised
RaiseDuplicateSkip ==
    /\ pc = "buy"
    /\ symbols_to_buy # <<>>
    /\ AlreadyOwned(owned_shares, Head(symbols_to_buy).symbol)
    /\ symbols_to_buy' = Tail(symbols_to_buy)
    /\ UNCHANGED <<config, memo, call, price, owned_todo, row, entries,
                   purchease_candidates, capital_at_time, engine>>

\* lines 176-182
RaiseDuplicate ==
    /\ pc = "buy"
    /\ symbols_to_buy # <<>>
    /\ AlreadyOwned(owned_shares, Head(symbols_to_buy).symbol)
    /\ Raise("DuplicatePosition")
    /\ UNCHANGED engine

\* line 195 with the principal of the short sale added to the cash
CashAfterShortEntryCredited(money, trx_value, fee) == money + trx_value - fee

\* line 195: a short entry costs its fee, the principal goes to _money_from_short
CashAfterShortEntry(money, trx_value, fee) == money - fee

\* lines 184-206
Buy ==
    /\ pc = "buy"
    /\ symbols_to_buy # <<>>
    /\ ~AlreadyOwned(owned_shares, Head(symbols_to_buy).symbol)
    /\ LET trx == Head(symbols_to_buy)
           trx_id == TrxId(Today, trx.symbol, trx.entry_type)
           long == trx.entry_type = "long"
           trx_value_with_fee == IF long THEN trx.trx_value + trx.fee
                                 ELSE trx.trx_value - trx.fee
           cnt == IF long THEN trx.shares_count ELSE 0 - trx.shares_count
       IN  /\ owned_shares' = DictSet(owned_shares,
                    [symbol |-> trx.symbol, cnt |-> cnt, trx_id |-> trx_id])
           /\ available_money' = Round2(IF long THEN available_money - trx_value_with_fee
                                        ELSE CashAfterShortEntry(available_money,
                                                                 trx.trx_value, trx.fee))
           /\ money_from_short' = IF long THEN money_from_short
                                  ELSE With(money_from_short, trx_id, trx.trx_value)
           /\ trades' = With(trades, trx_id,
                    [buy_ds |-> Today, type |-> trx.entry_type,
                     trx_value_no_fee |-> trx.trx_value,
                     trx_value_with_fee |-> trx_value_with_fee])
    /\ symbols_to_buy' = Tail(symbols_to_buy)
    /\ UNCHANGED <<config, memo, call, price, owned_todo, row, entries,
                   purchease_candidates, capital_at_time, snapshots, backup_close_prices>>

\* ------------------------------------------- _summarize_day, lines 243-251
SummarizeDay ==
    /\ pc = "buy"
    /\ symbols_to_buy = <<>>
    /\ IF AccountValueFails(owned_shares, backup_close_prices)
       THEN /\ Raise("KeyError")
            /\ UNCHANGED engine
       ELSE LET av == CalculateAccountValue(owned_shares, backup_close_prices)
                nav == Nav(av, available_money, GetMoneyFromShort(money_from_short))
            IN  /\ backup_close_prices' = BackupAfter(owned_shares, backup_close_prices, Today)
                /\ account_value' = With(account_value, Today, av)
                /\ net_account_value' = With(net_account_value, Today, nav)
                /\ rate_of_return' = With(rate_of_return, Today, RateOfReturn(nav, init_capital))
                /\ pc' = "loop"
                /\ UNCHANGED <<config, memo, outcome, runs, previous, test_days, days, idx,
                               locals, book>>

\* ------------------------------------------------------------------ Spec
Next ==
    \/ CallRun
    \/ BeginDay
    \/ Return
    \/ SkipAbsent
    \/ ExitLong
    \/ ExitShort
    \/ StopLossLong
    \/ StopLossShort
    \/ StopLossHold
    \/ NotExiting
    \/ RaiseBankrupt
    \/ SellEnd
    \/ CandidatePhase
    \/ Sizing
    \/ RaiseDuplicate
    \/ Buy
    \/ SummarizeDay

Spec == Init /\ [][Next]_vars

RerunSpec == RerunInit /\ [][Next]_vars

\* ------------------------------------------------------------ properties
Holding(symbol) == \E i \in 1..Len(owned_shares) : owned_shares[i].symbol = symbol
PositionIds == {owned_shares[i].trx_id : i \in 1..Len(owned_shares)}
OpenIds == {id \in DOMAIN trades : IsOpen(trades[id])}
ClosedIds == {id \in DOMAIN trades : ~IsOpen(trades[id])}
SymbolOf(id) == id[2]
BetweenDays == pc = "loop" \/ outcome = "returned"
Simulated == {days[i] : i \in 1..idx}
ShortProceeds == GetMoneyFromShort(money_from_short)

\* C1: once a day is summarized, its net_account_value equals its account_value plus
\* the cash at the end of the day plus the sum of the short-proceeds entries then held.
C1_AccountingIdentity ==
    (BetweenDays /\ idx >= 1) =>
        /\ Today \in DOMAIN net_account_value
        /\ Today \in DOMAIN account_value
        /\ net_account_value[Today] = account_value[Today] + available_money + ShortProceeds

C1_Witness ==
    /\ pc = "loop" /\ idx >= 2
    /\ money_from_short # EmptyDict
    /\ account_value[Today] # 0
    /\ ClosedIds # {}

\* C2: between the days of a run, the short-proceeds ledger holds an entry for a trade id
\* exactly when that trade is in the ledger, is a short and has no sell date.
C2_ShortProceedsIffOpenShort ==
    BetweenDays =>
        DOMAIN money_from_short = {id \in OpenIds : trades[id].type = "short"}

\* C3: every closed trade records the profit of its own type: a long trade
\* (gross - fee) - entry value with fee, a short trade entry value with fee - (gross + fee),
\* rounded to two decimals.
C3_ProfitCorrect ==
    \A id \in ClosedIds :
        LET t == trades[id]
            fee == CalculateFee(t.sell_value_no_fee)
        IN  IF t.type = "long"
            THEN /\ t.sell_value_with_fee = t.sell_value_no_fee - fee
                 /\ t.profit = Round2(t.sell_value_with_fee - t.trx_value_with_fee)
            ELSE /\ t.sell_value_with_fee = t.sell_value_no_fee + fee
                 /\ t.profit = Round2(t.trx_value_with_fee - t.sell_value_with_fee)

\* C4: no symbol has two open positions: the position book holds at most one position
\* per symbol and the ledger at most one trade without a sell date per symbol.
C4_Uniqueness ==
    \A s \in Symbols :
        /\ Cardinality({i \in 1..Len(owned_shares) : owned_shares[i].symbol = s}) <= 1
        /\ Cardinality({id \in OpenIds : SymbolOf(id) = s}) <= 1

C4_Witness ==
    \E s \in Symbols :
        /\ Holding(s)
        /\ \E id \in ClosedIds : SymbolOf(id) = s

\* C5: the ids of the held positions are exactly the ids of the trades without a sell
\* date, one position per id, and a step of a run takes a position off the book exactly
\* when it finalizes that position's trade.
C5_Linked ==
    /\ PositionIds = OpenIds
    /\ Cardinality(PositionIds) = Len(owned_shares)
    /\ \A i \in 1..Len(owned_shares) : SymbolOf(owned_shares[i].trx_id) = owned_shares[i].symbol

C5_SameStep ==
    runs' = runs =>
        \A s \in Symbols :
            Holding(s) =>
                LET id == Position(owned_shares, s).trx_id
                IN  (\A i \in 1..Len(owned_shares') : owned_shares'[i].symbol # s)
                        <=> (id \in DOMAIN trades' /\ ~IsOpen(trades'[id]))

C5_Linkage == []C5_Linked /\ [][C5_SameStep]_vars

C5_Witness ==
    /\ ClosedIds # {}
    /\ owned_shares # <<>>
    /\ \E id \in ClosedIds : ~Holding(SymbolOf(id))

\* C6: a negative cash balance after the exit phase raises the bankruptcy error at once,
\* with no buy and no snapshot for that day or a later one; past the check cash is >= 0.
C6_PastCheck == pc \in {"candidates", "size"} => available_money >= 0

C6_NoSnapshot ==
    outcome = "Bankruptcy" =>
        /\ available_money < 0
        /\ DOMAIN account_value = Simulated \ {Today}
        /\ DOMAIN net_account_value = Simulated \ {Today}
        /\ DOMAIN rate_of_return = Simulated \ {Today}

C6_AbortStep ==
    /\ (pc = "exit" /\ owned_todo = <<>> /\ available_money < 0) =>
            (outcome' = "Bankruptcy" /\ UNCHANGED engine)
    /\ (outcome = "Bankruptcy" /\ runs' = runs) => UNCHANGED engine

C6_BankruptcyAbort == [](C6_PastCheck /\ C6_NoSnapshot) /\ [][C6_AbortStep]_vars

C6_Witness ==
    /\ outcome = "Bankruptcy"
    /\ idx >= 2
    /\ ClosedIds # {}

\* C7: a buy decision for a held symbol raises the duplicate-position error at once:
\* cash, book, ledgers and snapshots stay as they are, no later decision is executed and
\* the day gets no snapshot.
C7_AbortStep ==
    /\ (pc = "buy" /\ symbols_to_buy # <<>> /\ Holding(Head(symbols_to_buy).symbol)) =>
            (outcome' = "DuplicatePosition" /\ UNCHANGED engine)
    /\ (outcome = "DuplicatePosition" /\ runs' = runs) => UNCHANGED engine

C7_NoSnapshot ==
    outcome = "DuplicatePosition" =>
        /\ DOMAIN account_value = Simulated \ {Today}
        /\ DOMAIN net_account_value = Simulated \ {Today}

C7_DuplicateAbort == []C7_NoSnapshot /\ [][C7_AbortStep]_vars

C7_Witness ==
    /\ outcome = "DuplicatePosition"
    /\ \E id \in OpenIds : trades[id].buy_ds = Today

\* C8: a run ends by returning, by the duplicate-position error or by the bankruptcy error.
C8_ClosedOutcomes ==
    outcome \in {"none", "running", "returned", "DuplicatePosition", "Bankruptcy"}

\* at the top of the day loop every attribute has its initial value
C9_FreshStart ==
    (pc = "loop" /\ idx = 0) =>
        /\ owned_shares = <<>>
        /\ available_money = init_capital
        /\ money_from_short = EmptyDict
        /\ trades = EmptyDict
        /\ account_value = EmptyDict
        /\ net_account_value = EmptyDict
        /\ rate_of_return = EmptyDict
        /\ backup_close_prices = EmptyDict

\* a finished call that simulated the days of the call before it ended as that call did
C9_SameOutput ==
    (runs >= 2 /\ pc = "idle" /\ days = previous.days) => Output = previous

\* C9: every call of run starts from the initial state, whatever the call before it did,
\* and two calls on the same days, panel and deterministic sizer end the same way with
\* the same time series and the same ledger.
C9_RunIndependence == C9_FreshStart /\ C9_SameOutput

C9_Witness ==
    /\ runs = 2 /\ pc = "idle"
    /\ days = previous.days
    /\ outcome = "returned"
    /\ ClosedIds # {}

\* C10: a run that returns has recorded a snapshot for exactly the first min(n, D) days
\* of the sorted union of the symbols' dates, or for all D days without a day limit.
AllDays == Sorted(UNION {dates[s] : s \in Symbols})
FirstDays(n) ==
    IF n = NoLimit THEN Range(AllDays)
    ELSE {AllDays[i] : i \in 1..Min(n, Len(AllDays))}

C10_DayLimit ==
    outcome = "returned" =>
        /\ DOMAIN account_value = FirstDays(test_days)
        /\ DOMAIN net_account_value = FirstDays(test_days)
        /\ DOMAIN rate_of_return = FirstDays(test_days)

\* C11: while no entry_long or entry_short cell read from the panel is 1, every simulated
\* day has account_value 0, net_account_value equal to the initial capital and
\* rate_of_return 0, cash stays the initial capital, nothing is held, the ledger is
\* empty and the run raises nothing.
EntryColumns == {"entry_long", "entry_short"}
NoEntrySignal == \A k \in DOMAIN panel : k[1] \in EntryColumns => panel[k] # 1
Recording == runs >= 1 /\ runs < calls

C11_NoOp ==
    (Recording /\ NoEntrySignal) =>
        /\ outcome \in {"running", "returned"}
        /\ available_money = init_capital
        /\ owned_shares = <<>>
        /\ money_from_short = EmptyDict
        /\ trades = EmptyDict
        /\ DOMAIN account_value = (IF BetweenDays THEN Simulated ELSE Simulated \ {Today})
        /\ DOMAIN net_account_value = DOMAIN account_value
        /\ DOMAIN rate_of_return = DOMAIN account_value
        /\ \A d \in DOMAIN account_value :
            /\ account_value[d] = 0
            /\ net_account_value[d] = init_capital
            /\ rate_of_return[d][1] = 0

C11_Witness ==
    /\ Recording /\ NoEntrySignal
    /\ outcome = "returned"
    /\ Len(days) >= 2
    /\ DOMAIN net_account_value = Range(days)
    /\ \E k \in DOMAIN panel : k[1] = "entry_short"

\* the step is the exit check of a held symbol that has data today
HoldingNext(symbol) == \E i \in 1..Len(owned_shares') : owned_shares'[i].symbol = symbol
ExitCheck(symbol) ==
    /\ runs' = runs
    /\ Checking(symbol)
    /\ symbol \in DOMAIN price
    /\ row' # <<>>
    /\ row'[1].symbol = symbol
SignalSet(r, column) == column \in DOMAIN r /\ r[column] = 1
NoSignal(r) ==
    /\ r.exit_long # 1
    /\ "exit_short" \in DOMAIN r
    /\ r.exit_short # 1

\* what _sell does to the book when it closes the position of the symbol as a long one
SoldLong(symbol) ==
    LET pos == Position(owned_shares, symbol)
        gross == Abs(pos.cnt) * price[symbol]
        fee == CalculateFee(gross)
    IN  /\ ~HoldingNext(symbol)
        /\ trades'[pos.trx_id].sell_ds = Today
        /\ trades'[pos.trx_id].sell_value_with_fee = gross - fee
        /\ available_money' = available_money + gross - fee
        /\ money_from_short' = money_from_short

\* and as a short one
SoldShort(symbol) ==
    LET pos == Position(owned_shares, symbol)
        gross == Abs(pos.cnt) * price[symbol]
        fee == CalculateFee(gross)
    IN  /\ ~HoldingNext(symbol)
        /\ trades'[pos.trx_id].sell_ds = Today
        /\ trades'[pos.trx_id].sell_value_with_fee = gross + fee
        /\ pos.trx_id \in DOMAIN money_from_short
        /\ pos.trx_id \notin DOMAIN money_from_short'
        /\ available_money' = available_money + money_from_short[pos.trx_id] - (gross + fee)

Kept(symbol) == HoldingNext(symbol) /\ UNCHANGED book

C12_Enforced ==
    \A s \in Symbols :
        (stop_loss = TRUE /\ ExitCheck(s) /\ NoSignal(row'[1])) =>
            /\ "stop_loss" \in DOMAIN row'[1]
            /\ LET type == trades[Position(owned_shares, s).trx_id].type
                   sl == row'[1].stop_loss
               IN  IF type = "long" /\ price[s] <= sl THEN SoldLong(s)
                   ELSE IF type = "short" /\ price[s] >= sl THEN SoldShort(s)
                   ELSE Kept(s)

C12_Disabled ==
    \A s \in Symbols :
        (stop_loss = FALSE /\ runs' = runs /\ Holding(s)) =>
            /\ (ExitCheck(s) /\ NoSignal(row'[1])) => Kept(s)
            /\ ~HoldingNext(s) =>
                /\ ExitCheck(s)
                /\ SignalSet(row'[1], "exit_long") \/ SignalSet(row'[1], "exit_short")

\* C12: with stop-loss enforcement on, a held symbol with data today and no exit signal
\* set is sold in the exit check exactly when its open trade is long and the price is at
\* or below the stop_loss price, or short and the price at or above it, by the sell of
\* the trade's own direction; with enforcement off a position leaves the book only in an
\* exit check whose exit_long or exit_short is 1.
C12_StopLoss == [][C12_Enforced /\ C12_Disabled]_vars

C12_Witness ==
    /\ stop_loss = TRUE /\ pc = "exit"
    /\ row # <<>> /\ "stop_loss" \in DOMAIN row[1]
    /\ ~Holding(row[1].symbol)
    /\ \E id \in ClosedIds :
        /\ SymbolOf(id) = row[1].symbol
        /\ trades[id].sell_ds = Today
        /\ trades[id].type = "short"

\* the step executes the buy decision at the head of symbols_to_buy, a short entry
ShortEntry ==
    /\ runs' = runs
    /\ pc = "buy" /\ symbols_to_buy # <<>>
    /\ pc' = "buy" /\ symbols_to_buy' = Tail(symbols_to_buy)
    /\ Head(symbols_to_buy).entry_type = "short"

\* the step finalizes the open short trade id
ShortClosed(id) ==
    /\ runs' = runs
    /\ id \in OpenIds
    /\ trades[id].type = "short"
    /\ id \in DOMAIN trades' /\ ~IsOpen(trades'[id])

\* the exit check called _sell with exit_type 'short' (lines 68-70 and 77-79)
ShortSell == row' # <<>> /\ row'[1].exit_long # 1

EntryId == TrxId(Today, Head(symbols_to_buy).symbol, "short")

\* C13 as stated: a short entry lowers the cash by exactly its fee and creates a
\* short-proceeds entry of exactly its gross value; the exit of that short adds the entry
\* back to the cash, removes it and subtracts gross + fee, and records the profit
\* (G1 - f1) - (G2 + f2).
C13_ExactEntry ==
    ShortEntry =>
        /\ available_money' = available_money - Head(symbols_to_buy).fee
        /\ money_from_short' = With(money_from_short, EntryId, Head(symbols_to_buy).trx_value)

C13_ExactExit ==
    \A id \in DOMAIN trades :
        ShortClosed(id) =>
            LET G2 == trades'[id].sell_value_no_fee
                f2 == CalculateFee(G2)
            IN  /\ id \in DOMAIN money_from_short
                /\ id \notin DOMAIN money_from_short'
                /\ available_money' = available_money + money_from_short[id] - (G2 + f2)
                /\ trades'[id].profit = trades[id].trx_value_with_fee - (G2 + f2)

C13_RoundedEntry ==
    ShortEntry =>
        LET trx == Head(symbols_to_buy)
        IN  /\ available_money' = Round2(available_money - trx.fee)
            /\ money_from_short' = With(money_from_short, EntryId, trx.trx_value)
            /\ trades'[EntryId].trx_value_with_fee = trx.trx_value - trx.fee

C13_ShortSellExit ==
    \A id \in DOMAIN trades :
        (ShortClosed(id) /\ ShortSell) =>
            LET G2 == trades'[id].sell_value_no_fee
                f2 == CalculateFee(G2)
            IN  /\ G2 = Abs(Position(owned_shares, SymbolOf(id)).cnt) * price[SymbolOf(id)]
                /\ id \in DOMAIN money_from_short
                /\ money_from_short[id] = trades[id].trx_value_no_fee
                /\ id \notin DOMAIN money_from_short'
                /\ available_money' = available_money + money_from_short[id] - (G2 + f2)
                /\ trades'[id].sell_value_with_fee = G2 + f2
                /\ trades'[id].profit = Round2(trades[id].trx_value_with_fee - (G2 + f2))

Held == Range(Keys(owned_shares))

\* the value of the held positions at the prices P
Worth(P) ==
    SumValues([i \in 1..Len(owned_shares) |->
                    owned_shares[i].cnt * P[owned_shares[i].symbol]])

\* today's price of a held symbol, or its last-known price
KnownPrices ==
    [s \in Held |-> IF s \in DOMAIN price THEN price[s] ELSE backup_close_prices[s][1]]

\* the price of a held symbol on the last day it had data, where the state tells it:
\* today's price, or the price it was bought at when it had no data since
NoDataSince(s, ds) == \A d \in dates[s] : ~(Before(ds, d) /\ Before(d, Today))
LastSeen ==
    [s \in Held |->
        LET pos == Position(owned_shares, s)
            t == trades[pos.trx_id]
        IN  IF Today \in dates[s] THEN price[s]
            ELSE IF NoDataSince(s, t.buy_ds) THEN t.trx_value_no_fee \div Abs(pos.cnt)
            ELSE backup_close_prices[s][1]]

\* during a run every held symbol has a price today or a last-known price
C14_Known ==
    outcome = "running" => \A s \in Held : HasPrice(s, backup_close_prices)

\* once a day is summarized, the account value counts every held symbol at the price of
\* the last day it had data, and that price is its last-known price
C14_GapValue ==
    (pc = "loop" /\ idx >= 1) =>
        /\ Held \subseteq DOMAIN backup_close_prices
        /\ \A s \in Held : backup_close_prices[s][1] = LastSeen[s]
        /\ account_value[Today] = Worth(LastSeen)

\* the two computations of the account value never fail and use the known prices
C14_Computed ==
    /\ (runs' = runs /\ pc = "size") =>
            /\ pc' = "buy"
            /\ capital_at_time' = available_money + Worth(KnownPrices) + ShortProceeds
    /\ (runs' = runs /\ pc = "buy" /\ symbols_to_buy = <<>>) =>
            /\ pc' = "loop"
            /\ account_value'[Today] = Worth(KnownPrices)
            /\ net_account_value'[Today] =
                    Worth(KnownPrices) + available_money + ShortProceeds

\* a last-known price only ever becomes the price of today, of a symbol with data today,
\* and it does so at every computation of the account value while the symbol is held
C14_Carried ==
    runs' = runs =>
        /\ \A s \in DOMAIN backup_close_prices' :
                (s \notin DOMAIN backup_close_prices
                    \/ backup_close_prices'[s][1] # backup_close_prices[s][1]) =>
                    (s \in DOMAIN price /\ backup_close_prices'[s][1] = price[s])
        /\ (pc = "size" \/ (pc = "buy" /\ symbols_to_buy = <<>>)) =>
                \A s \in Held \cap DOMAIN price : backup_close_prices'[s][1] = price[s]
        /\ DOMAIN backup_close_prices \subseteq DOMAIN backup_close_prices'

\* C14: when a held symbol has no price today, the capital passed to the sizer and the
\* snapshot count it at the last price it had data for, the run goes on without error,
\* and every held symbol has such a price, also over several missing days in a row.
C14_DataGap == [](C14_Known /\ C14_GapValue) /\ [][C14_Computed /\ C14_Carried]_vars

C14_Witness ==
    /\ pc = "loop" /\ idx = 3
    /\ \E s \in Held :
        /\ dates[s] = {days[1]}
        /\ account_value[Today] # 0
        /\ account_value[Today] = account_value[days[1]]

SoldToday(s) == {id \in ClosedIds : SymbolOf(id) = s /\ trades[id].sell_ds = Today}

\* the exit check of a symbol reads exit_long, then exit_short only if exit_long is not 1,
\* then stop_loss only if neither is 1 and enforcement is on, and takes the first branch
\* that matches; the short branch sells short or fails on line 160
C15_FirstMatch ==
    \A s \in Symbols :
        ExitCheck(s) =>
            LET r == row'[1]
            IN  /\ r.exit_long = 1 =>
                    /\ DOMAIN r = {"symbol", "exit_long"}
                    /\ SoldLong(s)
                /\ r.exit_long # 1 =>
                    /\ "exit_short" \in DOMAIN r
                    /\ r.exit_short = 1 =>
                        /\ "stop_loss" \notin DOMAIN r
                        /\ SoldShort(s) \/ (outcome' = "KeyError" /\ UNCHANGED book)
                    /\ r.exit_short # 1 =>
                        /\ "stop_loss" \in DOMAIN r <=> stop_loss = TRUE
                        /\ stop_loss # TRUE => Kept(s)
                /\ outcome' = "running" => owned_todo' = Tail(owned_todo)

\* a symbol is checked at most once a day and sold at most once a day
C15_Once ==
    /\ \A i, j \in 1..Len(owned_todo) : owned_todo[i] = owned_todo[j] => i = j
    /\ idx >= 1 => \A s \in Symbols : Cardinality(SoldToday(s)) <= 1
    /\ pc = "exit" => \A s \in Range(owned_todo) : SoldToday(s) = {}

\* C15: for each held symbol with data today exactly one branch is taken, exit_long = 1
\* first, then exit_short = 1, then the stop-loss comparison if enabled, and no later
\* cell is read once a branch matched; a position is sold at most once a day, and a row
\* with exit_long = 1 is a long exit whatever its exit_short.
C15_ExitPriority == []C15_Once /\ [][C15_FirstMatch]_vars

C15_Witness ==
    /\ pc = "exit" /\ stop_loss = TRUE /\ idx >= 2
    /\ row # <<>> /\ row[1].exit_long = 1
    /\ \E id \in SoldToday(row[1].symbol) :
        trades[id].sell_value_with_fee < trades[id].sell_value_no_fee

CandidatesOf(s) ==
    {i \in 1..Len(purchease_candidates) : purchease_candidates[i].symbol = s}

\* C16: the candidate list passed to the sizer holds, for every symbol with data today,
\* one long candidate if its entry_long is 1, else one short candidate if its entry_short
\* is 1, else none; none for a symbol without data today; each candidate carries today's
\* price of the symbol, and the list follows the order of the symbols.
C16_Candidates ==
    pc \in {"size", "buy"} =>
        /\ DOMAIN entries = Range(SymbolsInDay(Today))
        /\ \A s \in Symbols \ DOMAIN entries : CandidatesOf(s) = {}
        /\ \A s \in DOMAIN entries :
            LET want == IF entries[s].entry_long = 1 THEN "long"
                        ELSE IF entries[s].entry_short = 1 THEN "short"
                        ELSE "none"
            IN  IF want = "none" THEN CandidatesOf(s) = {}
                ELSE /\ Cardinality(CandidatesOf(s)) = 1
                     /\ \A i \in CandidatesOf(s) :
                            /\ purchease_candidates[i].entry_type = want
                            /\ purchease_candidates[i].price = price[s]
        /\ \A i \in 1..Len(purchease_candidates) :
                purchease_candidates[i].symbol \in DOMAIN entries
        /\ purchease_candidates # <<>> =>
                Keys(purchease_candidates) =
                    SelectSeq(SymbolsInDay(Today), LAMBDA s : CandidatesOf(s) # {})

C16_Witness ==
    /\ pc = "size"
    /\ Len(purchease_candidates) = 2
    /\ purchease_candidates[1].entry_type = "long"
    /\ purchease_candidates[2].entry_type = "short"
    /\ purchease_candidates[1].price # purchease_candidates[2].price

\* the step executes the buy decision at the head of symbols_to_buy
BuyStep ==
    /\ runs' = runs
    /\ pc = "buy" /\ symbols_to_buy # <<>>
    /\ pc' = "buy" /\ symbols_to_buy' = Tail(symbols_to_buy)

\* a step of a run leaves every finalized trade in the ledger as it is; a buy adds a
\* record under an id the ledger did not hold; a sell finalizes a record that was open
C17_Step ==
    runs' = runs =>
        /\ \A id \in ClosedIds : id \in DOMAIN trades' /\ trades'[id] = trades[id]
        /\ BuyStep =>
            /\ DOMAIN trades \subseteq DOMAIN trades'
            /\ Cardinality(DOMAIN trades') = Cardinality(DOMAIN trades) + 1
            /\ \A id \in DOMAIN trades : trades'[id] = trades[id]
        /\ \A id \in DOMAIN trades' :
                (id \in DOMAIN trades /\ trades'[id] # trades[id]) =>
                    (IsOpen(trades[id]) /\ ~IsOpen(trades'[id]))

\* C17: once a trade has a sell date no later step of the run changes a field of it or
\* takes it off the ledger: no later buy makes its id again and overwrites it, and no
\* sell finalizes it a second time.
C17_Immutable == [][C17_Step]_vars

C17_Witness ==
    \E id \in ClosedIds, later \in DOMAIN trades :
        /\ later # id
        /\ SymbolOf(later) = SymbolOf(id)
        /\ trades[later].type = trades[id].type
        /\ trades[later].buy_ds = trades[id].sell_ds
        /\ ~IsOpen(trades[later])

Absent == Held \ DOMAIN price

\* the position, trade record and short-proceeds entry of the symbol are left as they are
Untouched(s) ==
    LET pos == Position(owned_shares, s)
    IN  /\ HoldingNext(s)
        /\ Position(owned_shares', s) = pos
        /\ pos.trx_id \in DOMAIN trades' /\ trades'[pos.trx_id] = trades[pos.trx_id]
        /\ pos.trx_id \in DOMAIN money_from_short <=> pos.trx_id \in DOMAIN money_from_short'
        /\ pos.trx_id \in DOMAIN money_from_short =>
                money_from_short'[pos.trx_id] = money_from_short[pos.trx_id]

\* C18: on a day a held symbol has no data, every step of the exit phase leaves its
\* position, its trade record and its short-proceeds entry as they are; the step that
\* comes to it in the list reads no cell of the panel, changes neither cash nor book nor
\* ledgers, and goes on to the next symbol.
C18_Step ==
    (runs' = runs /\ pc = "exit") =>
        \A s \in Absent :
            /\ Untouched(s)
            /\ Checking(s) =>
                /\ UNCHANGED <<book, memo>>
                /\ row' = <<>>
                /\ pc' = "exit" /\ outcome' = "running"
                /\ owned_todo' = Tail(owned_todo)

C18_AbsentSkipped == [][C18_Step]_vars

C18_Witness ==
    /\ pc = "exit" /\ owned_todo = <<>>
    /\ \E s \in Absent : Position(owned_shares, s).cnt < 0
    /\ \E id \in ClosedIds : trades[id].sell_ds = Today

BoughtToday(s) == {id \in DOMAIN trades : SymbolOf(id) = s /\ trades[id].buy_ds = Today}

\* a closed trade was sold on a later day than it was bought, a trade bought today is
\* open, and a symbol sold in today's exit phase is off the book when the entries start
C19_Later ==
    /\ \A id \in ClosedIds : Before(trades[id].buy_ds, trades[id].sell_ds)
    /\ idx >= 1 => \A s \in Symbols : \A id \in BoughtToday(s) : IsOpen(trades[id])
    /\ pc \in {"candidates", "size"} =>
            \A s \in Symbols : SoldToday(s) # {} => ~Holding(s)

\* the first buy decision of the day for a symbol sold today is executed
C19_Rebuy ==
    (runs' = runs /\ pc = "buy" /\ symbols_to_buy # <<>>) =>
        LET s == Head(symbols_to_buy).symbol
        IN  (SoldToday(s) # {} /\ BoughtToday(s) = {}) =>
                /\ BuyStep
                /\ outcome' = "running"
                /\ HoldingNext(s)

\* C19: exits run before entries within a day, so every closed trade has a sell date
\* strictly later than its buy date, and a symbol sold in the exit phase of a day is
\* bought again in the entry phase of the same day without the duplicate-position error.
C19_PhaseOrder == []C19_Later /\ [][C19_Rebuy]_vars

C19_Witness ==
    /\ pc = "buy"
    /\ \E s \in Symbols :
        /\ SoldToday(s) # {}
        /\ BoughtToday(s) # {}
        /\ Holding(s)

HalfCent == 5           \* half of the last digit that round(x, 2) keeps, in thousandths

AllBoughtToday == {id \in DOMAIN trades : trades[id].buy_ds = Today}
FeeOf(t) == Abs(t.trx_value_with_fee - t.trx_value_no_fee)
FeesToday == SumValues([id \in AllBoughtToday |-> FeeOf(trades[id])])

\* C20 as stated: the net_account_value of a day's snapshot equals the capital_at_time
\* passed to the sizer that day minus the fees of the buys executed that day.
C20_FeesOnlyExact ==
    (pc = "loop" /\ idx >= 1) =>
        net_account_value[Today] = capital_at_time - FeesToday

\* C20 as amended: it equals that difference up to the rounding of the cash to two
\* decimals after each buy, half a cent at most for every buy executed that day.
C20_FeesOnly ==
    (pc = "loop" /\ idx >= 1) =>
        Abs(net_account_value[Today] - (capital_at_time - FeesToday))
            <= HalfCent * Cardinality(AllBoughtToday)

C20_Witness ==
    /\ pc = "loop" /\ idx >= 2
    /\ Cardinality(AllBoughtToday) = 2
    /\ \E a, b \in AllBoughtToday : trades[a].type = "long" /\ trades[b].type = "short"
    /\ Len(owned_shares) = 2
    /\ net_account_value[Today] # capital_at_time - FeesToday
====
